---- MODULE Spec2Model ----
(***************************************************************************)
(* Model of the SUMMARY.md parser of mdBook (src/summary/summary.rs).      *)
(*                                                                         *)
(* The input text is a sequence of characters.  The cursor `cur` of the    *)
(* source is a str::CharIndices iterator; it is modelled by the number of  *)
(* characters already consumed, and the byte offsets the iterator yields   *)
(* are computed from the UTF-8 width of the characters before it.          *)
(***************************************************************************)
EXTENDS Integers, Sequences, FiniteSets, TLC

VARIABLES
    input,     \* Summary.input: the text, a sequence of characters
    cur,       \* Summary.cur: the number of characters consumed
    chapters,  \* Summary.chapters: the outline being built
    errors,    \* Summary.errors: the diagnostics, in the order recorded
    pc,        \* the statement of parse the pass has reached
    title,     \* parse_link: local `title`
    dest,      \* parse_link: local `dest`
    balance,   \* parse_link: local `balance`
    result,    \* what parse returned: None, or Some(chapters)
    start,     \* history: the value of cur when parse_link was last called
    doc,       \* history: the items the text was written from, or None
    offset,    \* to_linecol: the argument of the call
    linecol    \* to_linecol: what the call returned, or None before it

vars == <<input, cur, chapters, errors, pc, title, dest, balance, result,
          start, doc, offset, linecol>>

(***************************************************************************)
(* Characters                                                              *)
(***************************************************************************)
NL == "\n"
CR == "\r"
BS == "\\"
\* a character outside ASCII, encoded by UTF-8 in two bytes
Wide == "U+00E9"

Alphabet == {NL, CR, "[", "]", "(", ")", BS, "-", "#", " ", Wide}

\* bound: the longest text of the family of all texts over Alphabet
MaxLen == 4
\* bounds: the longest title and destination of the single-link texts
MaxTitle == 3
MaxDest == 2
\* bound: the most items (links, blank lines) of a written document
MaxItems == 2
\* bound: the longest text to_linecol is applied to
MaxLineText == 5

\* char::len_utf8 for the characters of the alphabet
len_utf8(c) == IF c = Wide THEN 2 ELSE 1

RECURSIVE ByteLen(_)
\* str::len of a text: its length in bytes
ByteLen(s) == IF s = <<>> THEN 0 ELSE len_utf8(Head(s)) + ByteLen(Tail(s))

\* mutant of ByteOfs: the index in characters, not the offset in bytes
ByteOfsInChars(c) == c

\* the byte offset CharIndices reports for the character after the first c
ByteOfs(c) == ByteLen(SubSeq(input, 1, c))

(***************************************************************************)
(* Data model (src/summary/mod.rs, errors.rs)                              *)
(***************************************************************************)
None == <<>>
Some(x) == <<x>>

Link_new(name, destination) ==
    [name |-> name, destination |-> destination, children |-> None]

ParseError_new(desc, b) == [desc |-> desc, byte |-> b]

Chapters_new == [prefaces |-> <<>>, chapters |-> <<>>, appendices |-> <<>>]

(***************************************************************************)
(* Cursor primitives.  Each takes the cursor position c it works on.       *)
(***************************************************************************)
\* peek(n): the (byte offset, char) pair n characters ahead, or None
peek(c, n) ==
    IF c + n + 1 <= Len(input)
    THEN Some(<<ByteOfs(c + n), input[c + n + 1]>>)
    ELSE None

next_pos(c) == IF peek(c, 0) # None THEN peek(c, 0)[1][1] ELSE ByteLen(input)

eof(c) == peek(c, 0) = None

\* eat(ch): consumes the next character if it is ch
eat(c, ch) ==
    IF peek(c, 0) # None /\ peek(c, 0)[1][2] = ch
    THEN [ok |-> TRUE, cur |-> c + 1]
    ELSE [ok |-> FALSE, cur |-> c]

RECURSIVE eat_until_eol(_)
\* consumes characters up to and including the next "\n", or to the end
eat_until_eol(c) ==
    IF c >= Len(input) THEN c
    ELSE IF input[c + 1] = NL THEN c + 1
    ELSE eat_until_eol(c + 1)

\* newline(): consumes "\n" or "\r\n" if one is next
newline(c) ==
    IF peek(c, 0) # None /\ peek(c, 0)[1][2] = NL
    THEN [ok |-> TRUE, cur |-> c + 1]
    ELSE IF /\ peek(c, 0) # None /\ peek(c, 0)[1][2] = CR
            /\ peek(c, 1) # None /\ peek(c, 1)[1][2] = NL
    THEN [ok |-> TRUE, cur |-> c + 2]
    ELSE [ok |-> FALSE, cur |-> c]

\* the message format!() builds, as its pieces (BQ is the backquote)
BQ == "U+0060"
UnexpectedMsg(c) == <<"Unexpected character '", c, "'">>
ExpectedMsg(ch, c) == <<"expected ", BQ, ch, BQ, ", but found ", BQ, c, BQ>>
ExpectedEofMsg(ch) == <<"expected ", BQ, ch, BQ, ", but found eof">>

\* mutant of expect: the failure is reported to the caller only
expect_silent(c, ch) ==
    IF eat(c, ch).ok
    THEN [ok |-> TRUE, cur |-> eat(c, ch).cur, errs |-> <<>>]
    ELSE [ok |-> FALSE, cur |-> c, errs |-> <<>>]

\* expect(ch): eat(ch), or the diagnostic it records
expect(c, ch) ==
    IF eat(c, ch).ok
    THEN [ok |-> TRUE, cur |-> eat(c, ch).cur, errs |-> <<>>]
    ELSE [ok |-> FALSE, cur |-> c,
          errs |-> << ParseError_new(
                        IF peek(c, 0) # None
                        THEN ExpectedMsg(ch, peek(c, 0)[1][2])
                        ELSE ExpectedEofMsg(ch),
                        next_pos(c)) >>]

(***************************************************************************)
(* One iteration of the loops of parse_link: the `match` on the next       *)
(* character and the push that follows it.  ctl tells how the iteration    *)
(* ends: "loop" (next iteration), "break", or "panic" (a failed            *)
(* expect("Can't be None")).  The arms are tried in the order of the       *)
(* source.                                                                 *)
(***************************************************************************)
\* mutant of title_match: the closing arm comes before the guarded arm
title_match_close_first(c, t, b) ==
    LET ch == peek(c, 0)[1][2] IN
    IF ch = "[" THEN
        [cur |-> c + 1, text |-> Append(t, ch), balance |-> b + 1, ctl |-> "loop"]
    ELSE IF ch = "]" THEN
        [cur |-> c + 1, text |-> t, balance |-> b, ctl |-> "break"]
    ELSE IF ch = BS THEN
        IF peek(c, 1) = None
        THEN [cur |-> c + 1, text |-> Append(t, ch), balance |-> b, ctl |-> "panic"]
        ELSE [cur |-> c + 2, text |-> t \o <<ch, peek(c, 1)[1][2]>>,
              balance |-> b, ctl |-> "loop"]
    ELSE
        [cur |-> c + 1, text |-> Append(t, ch), balance |-> b, ctl |-> "loop"]

\* mutant of title_match: the backslash is consumed but not kept
title_match_unescape(c, t, b) ==
    LET ch == peek(c, 0)[1][2] IN
    IF ch = "[" THEN
        [cur |-> c + 1, text |-> Append(t, ch), balance |-> b + 1, ctl |-> "loop"]
    ELSE IF ch = "]" /\ b > 1 THEN
        [cur |-> c + 1, text |-> Append(t, ch), balance |-> b - 1, ctl |-> "loop"]
    ELSE IF ch = BS THEN
        IF peek(c, 1) = None
        THEN [cur |-> c + 1, text |-> t, balance |-> b, ctl |-> "panic"]
        ELSE [cur |-> c + 2, text |-> Append(t, peek(c, 1)[1][2]),
              balance |-> b, ctl |-> "loop"]
    ELSE IF ch = "]" THEN
        [cur |-> c + 1, text |-> t, balance |-> b, ctl |-> "break"]
    ELSE
        [cur |-> c + 1, text |-> Append(t, ch), balance |-> b, ctl |-> "loop"]

title_match(c, t, b) ==
    LET ch == peek(c, 0)[1][2] IN
    IF ch = "[" THEN
        [cur |-> c + 1, text |-> Append(t, ch), balance |-> b + 1, ctl |-> "loop"]
    ELSE IF ch = "]" /\ b > 1 THEN
        [cur |-> c + 1, text |-> Append(t, ch), balance |-> b - 1, ctl |-> "loop"]
    ELSE IF ch = BS THEN
        IF peek(c, 1) = None
        THEN [cur |-> c + 1, text |-> Append(t, ch), balance |-> b, ctl |-> "panic"]
        ELSE [cur |-> c + 2, text |-> t \o <<ch, peek(c, 1)[1][2]>>,
              balance |-> b, ctl |-> "loop"]
    ELSE IF ch = "]" THEN
        [cur |-> c + 1, text |-> t, balance |-> b, ctl |-> "break"]
    ELSE
        [cur |-> c + 1, text |-> Append(t, ch), balance |-> b, ctl |-> "loop"]

dest_match(c, d, b) ==
    LET ch == peek(c, 0)[1][2] IN
    IF ch = "(" THEN
        [cur |-> c + 1, text |-> Append(d, ch), balance |-> b + 1, ctl |-> "loop"]
    ELSE IF ch = ")" /\ b > 1 THEN
        [cur |-> c + 1, text |-> Append(d, ch), balance |-> b - 1, ctl |-> "loop"]
    ELSE IF ch = BS THEN
        IF peek(c, 1) = None
        THEN [cur |-> c + 1, text |-> Append(d, ch), balance |-> b, ctl |-> "panic"]
        ELSE [cur |-> c + 2, text |-> d \o <<ch, peek(c, 1)[1][2]>>,
              balance |-> b, ctl |-> "loop"]
    ELSE IF ch = ")" THEN
        [cur |-> c + 1, text |-> d, balance |-> b, ctl |-> "break"]
    ELSE
        [cur |-> c + 1, text |-> Append(d, ch), balance |-> b, ctl |-> "loop"]

\* mutant of ParseResult: the outline is returned whatever was recorded
ParseResultAlways(errs, ch) == Some(ch)

\* the last statement of parse
ParseResult(errs, ch) == IF errs = <<>> THEN Some(ch) ELSE None

(***************************************************************************)
(* Inputs.  Three families of texts: every text over Alphabet up to        *)
(* MaxLen characters; one link `[title](destination)` with every title     *)
(* and destination up to MaxTitle and MaxDest characters; and documents    *)
(* written from an optional `#` line and up to MaxItems items, each a      *)
(* blank line or a link, ended by a newline.  For the last two, doc keeps  *)
(* the items the text was written from.  The document of the test of       *)
(* summary.rs is one more input.                                           *)
(***************************************************************************)
Texts(A, n) == UNION { [1..k -> A] : k \in 0..n }

Item(isLink, t, d, e) == [link |-> isLink, title |-> t, dest |-> d, end |-> e]

RenderItem(it) ==
    IF it.link
    THEN <<"[">> \o it.title \o <<"]", "(">> \o it.dest \o <<")">> \o it.end
    ELSE it.end

RECURSIVE RenderItems(_)
RenderItems(its) ==
    IF its = <<>> THEN <<>> ELSE RenderItem(Head(its)) \o RenderItems(Tail(its))

Render(d) == d.header \o RenderItems(d.items)

LinkDocs ==
    { [header |-> <<>>, items |-> <<Item(TRUE, t, d, <<>>)>>] :
        t \in Texts({"[", "]", BS, " "}, MaxTitle),
        d \in Texts({"(", ")", BS}, MaxDest) }

DocHeaders == { <<>>, <<"#", NL>>, <<"#", " ", "[", NL>> }
DocTitles == { <<>>, <<" ">>, <<"[", "]">>, <<BS, "]">>, <<"]">>, <<BS, NL>> }
DocDests == { <<>>, <<"(", ")">>, <<"(">> }
DocItems ==
    { Item(TRUE, t, d, <<NL>>) : t \in DocTitles, d \in DocDests }
        \cup { Item(FALSE, <<>>, <<>>, <<NL>>) }

WrittenDocs ==
    { [header |-> h, items |-> its] :
        h \in DocHeaders, its \in Texts(DocItems, MaxItems) }

\* the document of tests::test_preface_chapters, character by character
test_case ==
    <<"#", " ", "S", "U", "M", "M", "A", "R", "Y", NL, NL, "[", "P", "r",
       "e", "f", "a", "c", "e", " ", "1", "]", "(", "d", "e", "s", "t",
       "i", "n", "a", "t", "i", "o", "n", ")", NL, "[", "P", "r", "e", "f",
       "a", "c", "e", " ", "[", "2", "]", "]", "(", "d", "e", "s", "t",
       "i", "n", "a", "t", "i", "o", "n", ")", NL, "[", "P", "r", "e", "f",
       "a", "c", "e", " ", BS, "[", "3", "]", "(", "d", "e", "s", "t", "i",
       "n", "a", "t", "i", "o", "n", ")", NL, " ", " ", " ", " ", " ", " ",
       " ", " " >>

\* Summary::new
SummaryNew(s) ==
    /\ input = s
    /\ cur = 0
    /\ chapters = Chapters_new
    /\ errors = <<>>
    /\ pc = "parse_header"
    /\ title = <<>>
    /\ dest = <<>>
    /\ balance = 1
    /\ result = None
    /\ start = 0

Init ==
    /\ \/ \E s \in Texts(Alphabet, MaxLen) : SummaryNew(s) /\ doc = None
       \/ \E d \in LinkDocs \cup WrittenDocs :
             SummaryNew(Render(d)) /\ doc = Some(d)
       \/ SummaryNew(test_case) /\ doc = None
    /\ offset = 0
    /\ linecol = None

(***************************************************************************)
(* parse = parse_header; parse_prefaces; return                            *)
(***************************************************************************)
\* mutant of parse_header: the `#` is consumed, the rest of its line is not
parse_header_hash_only ==
    /\ pc = "parse_header"
    /\ cur' = eat(cur, "#").cur
    /\ pc' = "parse_prefaces"
    /\ UNCHANGED <<input, chapters, errors, title, dest, balance, result,
                   start, doc, offset, linecol>>

parse_header ==
    /\ pc = "parse_header"
    /\ cur' = IF eat(cur, "#").ok THEN eat_until_eol(eat(cur, "#").cur) ELSE cur
    /\ pc' = "parse_prefaces"
    /\ UNCHANGED <<input, chapters, errors, title, dest, balance, result, start, doc, offset, linecol>>

\* mutant of LinkFailed: the cursor is put back where the scan started
LinkFailedRewinds(c) ==
    /\ cur' = start
    /\ pc' = "parse_prefaces"
    /\ UNCHANGED chapters

\* mutant of LinkFailed: the rest of the line is not discarded
LinkFailedKeepsLine(c) ==
    /\ cur' = c
    /\ pc' = "parse_prefaces"
    /\ UNCHANGED chapters

\* parse_prefaces, when parse_link returned None with the cursor at c
LinkFailed(c) ==
    /\ cur' = eat_until_eol(c)
    /\ pc' = "parse_prefaces"
    /\ UNCHANGED chapters

\* mutant of LinkParsed: the link is pushed to the chapters
LinkParsedAsChapter(c, link) ==
    /\ cur' = c
    /\ chapters' = [chapters EXCEPT !.chapters = Append(@, link)]
    /\ pc' = "parse_prefaces"

\* mutant of LinkParsed: the link is put in front of the prefaces
LinkParsedInFront(c, link) ==
    /\ cur' = c
    /\ chapters' = [chapters EXCEPT !.prefaces = <<link>> \o @]
    /\ pc' = "parse_prefaces"

\* parse_prefaces, when parse_link returned Some(link) with the cursor at c
LinkParsed(c, link) ==
    /\ cur' = c
    /\ chapters' = [chapters EXCEPT !.prefaces = Append(@, link)]
    /\ pc' = "parse_prefaces"

\* mutant of SectionBreak: the marker is taken for an unexpected character
SectionBreakUnexpected ==
    /\ errors' = Append(errors, ParseError_new(UnexpectedMsg("-"), ByteOfs(cur)))
    /\ cur' = eat_until_eol(cur)
    /\ UNCHANGED pc

\* the arm `(_, '-') => return` of parse_prefaces
SectionBreak ==
    /\ pc' = "return"
    /\ UNCHANGED <<cur, errors>>

\* mutant of Unexpected: the diagnostic is put in front of the list
UnexpectedInFront(p) ==
    /\ errors' = <<ParseError_new(UnexpectedMsg(p[2]), p[1])>> \o errors
    /\ cur' = eat_until_eol(cur)
    /\ UNCHANGED pc

\* mutant of Unexpected: the first diagnostic ends the pass
UnexpectedEndsPass(p) ==
    /\ errors' = Append(errors, ParseError_new(UnexpectedMsg(p[2]), p[1]))
    /\ cur' = eat_until_eol(cur)
    /\ pc' = "return"

\* mutant of Unexpected: only the offending character is consumed
UnexpectedKeepsLine(p) ==
    /\ errors' = Append(errors, ParseError_new(UnexpectedMsg(p[2]), p[1]))
    /\ cur' = cur + 1
    /\ UNCHANGED pc

\* the arm `(i, c) => { ... }` of parse_prefaces, p the (offset, char) peeked
Unexpected(p) ==
    /\ errors' = Append(errors, ParseError_new(UnexpectedMsg(p[2]), p[1]))
    /\ cur' = eat_until_eol(cur)
    /\ UNCHANGED pc

\* one iteration of the loop of parse_prefaces, up to the call of parse_link
parse_prefaces ==
    /\ pc = "parse_prefaces"
    /\ IF eof(cur)
       THEN /\ pc' = "return"
            /\ UNCHANGED <<cur, errors, title, balance, start>>
       ELSE IF newline(cur).ok
       THEN /\ cur' = newline(cur).cur
            /\ UNCHANGED <<pc, errors, title, balance, start>>
       ELSE LET p == peek(cur, 0)[1] IN
            IF p[2] = "["
            THEN \* parse_link: eat('['), then title and balance are set
                 /\ cur' = eat(cur, "[").cur
                 /\ title' = <<>>
                 /\ balance' = 1
                 /\ start' = cur
                 /\ pc' = "link_title"
                 /\ UNCHANGED errors
            ELSE IF p[2] = "-"
            THEN /\ SectionBreak
                 /\ UNCHANGED <<title, balance, start>>
            ELSE /\ Unexpected(p)
                 /\ UNCHANGED <<title, balance, start>>
    /\ UNCHANGED <<input, chapters, dest, result, doc, offset, linecol>>

\* one iteration of the title loop of parse_link
link_title ==
    /\ pc = "link_title"
    /\ IF eof(cur)
       THEN /\ pc' = "link_expect"
            /\ UNCHANGED <<cur, chapters, title, balance>>
       ELSE IF newline(cur).ok
       THEN /\ LinkFailed(newline(cur).cur)
            /\ UNCHANGED <<title, balance>>
       ELSE LET m == title_match(cur, title, balance) IN
            /\ cur' = m.cur
            /\ title' = m.text
            /\ balance' = m.balance
            /\ pc' = CASE m.ctl = "loop" -> "link_title"
                       [] m.ctl = "break" -> "link_expect"
                       [] m.ctl = "panic" -> "panic"
            /\ UNCHANGED chapters
    /\ UNCHANGED <<input, errors, dest, result, start, doc, offset, linecol>>

\* `if !self.expect('(') { return None }`, then dest and balance are set
link_expect ==
    /\ pc = "link_expect"
    /\ LET e == expect(cur, "(") IN
         /\ errors' = errors \o e.errs
         /\ IF e.ok
            THEN /\ cur' = e.cur
                 /\ dest' = <<>>
                 /\ balance' = 1
                 /\ pc' = "link_dest"
                 /\ UNCHANGED chapters
            ELSE /\ LinkFailed(e.cur)
                 /\ UNCHANGED <<dest, balance>>
    /\ UNCHANGED <<input, title, result, start, doc, offset, linecol>>

\* one iteration of the destination loop of parse_link
link_dest ==
    /\ pc = "link_dest"
    /\ IF eof(cur)
       THEN /\ LinkParsed(cur, Link_new(title, dest))
            /\ UNCHANGED <<dest, balance>>
       ELSE IF newline(cur).ok
       THEN /\ LinkFailed(newline(cur).cur)
            /\ UNCHANGED <<dest, balance>>
       ELSE LET m == dest_match(cur, dest, balance) IN
            IF m.ctl = "break"
            THEN /\ LinkParsed(m.cur, Link_new(title, m.text))
                 /\ UNCHANGED <<dest, balance>>
            ELSE /\ cur' = m.cur
                 /\ dest' = m.text
                 /\ balance' = m.balance
                 /\ pc' = IF m.ctl = "panic" THEN "panic" ELSE "link_dest"
                 /\ UNCHANGED chapters
    /\ UNCHANGED <<input, errors, title, result, start, doc, offset, linecol>>

\* `if self.errors.is_empty() { Some(self.chapters.clone()) } else { None }`
parse_return ==
    /\ pc = "return"
    /\ result' = ParseResult(errors, chapters)
    /\ pc' = "done"
    /\ UNCHANGED <<input, cur, chapters, errors, title, dest, balance, start, doc, offset, linecol>>

contains_errors == Len(errors) > 0

Next ==
    \/ parse_header
    \/ parse_prefaces
    \/ link_title
    \/ link_expect
    \/ link_dest
    \/ parse_return

Spec == Init /\ [][Next]_vars

(***************************************************************************)
(* to_linecol, a function of the input text and an offset.  It is applied  *)
(* in a specification of its own: every text over the characters that      *)
(* matter to str::lines, up to MaxLineText characters, and every offset    *)
(* up to one past the length of the text.                                  *)
(***************************************************************************)
\* the index of the first "\n" of s, or 0
FirstNL(s) ==
    IF \E k \in DOMAIN s : s[k] = NL
    THEN CHOOSE k \in DOMAIN s : s[k] = NL /\ \A j \in 1..(k - 1) : s[j] # NL
    ELSE 0

\* a line without the "\r" that ends it
StripCR(l) == IF l # <<>> /\ l[Len(l)] = CR THEN SubSeq(l, 1, Len(l) - 1) ELSE l

RECURSIVE lines(_, _)
\* str::lines: the lines of s, without their "\n" or "\r\n".  A last line
\* with no "\n" loses a "\r" at its end in builds with the older std
\* (bare_cr), and keeps it in the others.
lines(s, bare_cr) ==
    IF s = <<>> THEN <<>>
    ELSE IF FirstNL(s) = 0 THEN << IF bare_cr THEN StripCR(s) ELSE s >>
    ELSE <<StripCR(SubSeq(s, 1, FirstNL(s) - 1))>>
            \o lines(SubSeq(s, FirstNL(s) + 1, Len(s)), bare_cr)

RECURSIVE to_linecol_from(_, _, _, _)
\* the loop of to_linecol from line i (0-based) with the local cur at c
to_linecol_from(ls, i, c, ofs) ==
    IF i >= Len(ls) THEN <<Len(ls), 0>>
    ELSE IF c + ByteLen(ls[i + 1]) + 1 > ofs THEN <<i, ofs - c>>
    ELSE to_linecol_from(ls, i + 1, c + ByteLen(ls[i + 1]) + 1, ofs)

to_linecol(ofs, bare_cr) == to_linecol_from(lines(input, bare_cr), 0, 0, ofs)

LineAlphabet == {NL, CR, " ", Wide}

InitLineCol ==
    /\ \E s \in Texts(LineAlphabet, MaxLineText) :
          /\ SummaryNew(s)
          /\ offset \in 0..(ByteLen(s) + 1)
    /\ doc = None
    /\ linecol = None

\* a call of to_linecol(offset)
to_linecol_call ==
    /\ linecol = None
    /\ \E bare_cr \in BOOLEAN : linecol' = Some(to_linecol(offset, bare_cr))
    /\ UNCHANGED <<input, cur, chapters, errors, pc, title, dest, balance,
                   result, start, doc, offset>>

NextLineCol == to_linecol_call

SpecLineCol == InitLineCol /\ [][NextLineCol]_vars

(***************************************************************************)
(* Properties                                                              *)
(***************************************************************************)
Last(s) == s[Len(s)]

\* the byte offset of the cursor, from the widths of the characters before it
CurByte == ByteLen(SubSeq(input, 1, cur))

\* the characters of the input that start at byte offset b (one, or none)
CharAtByte(b) ==
    { input[i] : i \in { j \in DOMAIN input : ByteLen(SubSeq(input, 1, j - 1)) = b } }

\* C1: for every input, parse terminates normally: the pass is never aborted
\* by a failed expect("Can't be None").
C1_NeverAborts == pc # "panic"

\* C2: when the pass has ended, parse has returned Some(outline) if and only
\* if no diagnostic was recorded; with a diagnostic the result is None, and
\* the prefaces of a returned outline are the prefaces built by the pass.
C2_SomeIffNoErrors ==
    pc = "done" =>
        /\ (result # None) <=> (errors = <<>>)
        /\ contains_errors => result = None
        /\ result # None => result[1].prefaces = chapters.prefaces

C2_Witness ==
    /\ pc = "done"
    /\ result # None
    /\ Len(result[1].prefaces) >= 1

\* C3 (state part): every recorded diagnostic has 0 <= offset <= input
\* length in bytes; an "Unexpected character" diagnostic has the offset of
\* the character it names, below the input length; an expected-`(`
\* diagnostic has the offset of the character it names, or the input length
\* when it reports eof.
OffsetsValid ==
    \A i \in DOMAIN errors :
        LET e == errors[i] IN
        /\ e.byte \in 0..ByteLen(input)
        /\ e.desc[1] = "Unexpected character '" =>
               /\ e.byte < ByteLen(input)
               /\ CharAtByte(e.byte) = {e.desc[2]}
        /\ e.desc[1] = "expected " =>
               IF e.desc[5] = ", but found eof"
               THEN e.byte = ByteLen(input)
               ELSE CharAtByte(e.byte) = {e.desc[7]}

\* C3 (step part): a diagnostic is recorded at the offset of the next
\* unconsumed character: the offending character of the dispatch, or the
\* character (or end of input) that expect found.
RecordedAtCursor ==
    errors' # errors =>
        /\ Len(errors') = Len(errors) + 1
        /\ Last(errors').byte = CurByte

\* C3: in every reachable state every diagnostic's offset is valid and is
\* the offset described above.
C3_DiagnosticOffsets == []OffsetsValid /\ [][RecordedAtCursor]_vars

\* both kinds recorded, after a character two bytes wide
C3_Witness ==
    /\ Len(errors) = 2
    /\ errors[1].desc = UnexpectedMsg(Wide)
    /\ errors[2].desc = ExpectedEofMsg("(")
    /\ errors[2].byte = ByteLen(input)
    /\ ByteLen(input) > Len(input)

(***************************************************************************)
(* Well-formed links, stated apart from the scanner.                       *)
(***************************************************************************)
RECURSIVE CloseIdx(_, _, _, _, _)
\* the index in s, from i on, of the first unescaped `close` met at nesting
\* depth 1 (depth is the nesting depth at i); 0 when there is none
CloseIdx(s, i, depth, open, close) ==
    IF i > Len(s) THEN 0
    ELSE IF s[i] = BS THEN CloseIdx(s, i + 2, depth, open, close)
    ELSE IF s[i] = open THEN CloseIdx(s, i + 1, depth + 1, open, close)
    ELSE IF s[i] = close
         THEN IF depth = 1 THEN i ELSE CloseIdx(s, i + 1, depth - 1, open, close)
    ELSE CloseIdx(s, i + 1, depth, open, close)

Chars(s) == { s[i] : i \in DOMAIN s }

\* t is on one line, its unescaped delimiters are balanced, and no backslash
\* of t escapes the delimiter that closes it
WellNested(t, open, close) ==
    /\ NL \notin Chars(t)
    /\ CloseIdx(t \o <<close>>, 1, 1, open, close) = Len(t) + 1

WellFormedLink(it) ==
    /\ WellNested(it.title, "[", "]")
    /\ WellNested(it.dest, "(", ")")

RECURSIVE LinksOf(_)
\* one Entry per link item, in the order of the items
LinksOf(its) ==
    IF its = <<>> THEN <<>>
    ELSE IF Head(its).link
         THEN <<[name |-> Head(its).title, destination |-> Head(its).dest,
                 children |-> None]>> \o LinksOf(Tail(its))
    ELSE LinksOf(Tail(its))

\* the text was written from an optional `#` line, blank lines and
\* well-formed links, each ended by a newline
WellFormedDoc ==
    /\ doc # None
    /\ \A i \in DOMAIN doc[1].items :
          LET it == doc[1].items[i] IN
          /\ it.end = <<NL>>
          /\ it.link => WellFormedLink(it)

\* the text is one link and nothing else
OneLinkDoc ==
    /\ doc # None
    /\ doc[1].header = <<>>
    /\ Len(doc[1].items) = 1
    /\ doc[1].items[1].link
    /\ doc[1].items[1].end = <<>>

\* C4: for a text made of an optional `#` line, blank lines and well-formed
\* single-line links each ended by a newline, parse records no diagnostic
\* and returns Some outline whose prefaces are one Entry per link, in input
\* order, with the link's title and destination and no children.
C4_WellFormedDocument ==
    (pc = "done" /\ WellFormedDoc) =>
        /\ errors = <<>>
        /\ result = Some([prefaces |-> LinksOf(doc[1].items),
                          chapters |-> <<>>, appendices |-> <<>>])

C4_Witness ==
    /\ pc = "done"
    /\ WellFormedDoc
    /\ doc[1].header # <<>>
    /\ result # None
    /\ Len(result[1].prefaces) = 2
    /\ result[1].prefaces[1] # result[1].prefaces[2]

\* C5 (step part): when the title is over and the next character c is not
\* `(`, or the input has ended, no Entry is appended and exactly one
\* diagnostic is recorded, naming c at the offset of c, or eof at the input
\* length.
MissingParenStep ==
    (pc = "link_expect" /\ (cur >= Len(input) \/ input[cur + 1] # "(")) =>
        /\ chapters' = chapters
        /\ errors' = Append(errors,
              IF cur >= Len(input)
              THEN [desc |-> <<"expected ", BQ, "(", BQ, ", but found eof">>,
                    byte |-> ByteLen(input)]
              ELSE [desc |-> <<"expected ", BQ, "(", BQ, ", but found ",
                               BQ, input[cur + 1], BQ>>,
                    byte |-> CurByte])

\* C5 (the example): a text `[A]b`, b any character but `(`, gives no
\* prefaces and one diagnostic at the offset of b.
MissingParenExample ==
    (/\ pc = "done"
     /\ Len(input) = 4
     /\ input[1] = "["
     /\ input[2] \notin {"[", "]", BS, NL}
     /\ input[3] = "]"
     /\ input[4] # "(") =>
        /\ chapters.prefaces = <<>>
        /\ errors = << [desc |-> <<"expected ", BQ, "(", BQ, ", but found ",
                                   BQ, input[4], BQ>>,
                        byte |-> 2 + len_utf8(input[2])] >>

\* C5: a closed title not followed by `(` gives no Entry and one diagnostic.
C5_MissingParen == []MissingParenExample /\ [][MissingParenStep]_vars

C5_Witness ==
    /\ pc = "done"
    /\ input = <<"[", Wide, "]", " ">>
    /\ chapters.prefaces = <<>>
    /\ Len(errors) = 1
    /\ errors[1].byte = 4

\* C6: when the input ends before the `)` that closes the destination, the
\* pass appends no Entry to prefaces and records no diagnostic.
C6_UnterminatedDest ==
    [][(pc = "link_dest" /\ cur >= Len(input)) =>
          (chapters' = chapters /\ errors' = errors)]_vars

\* a newline ("\n" or "\r\n") is next
AtNewline ==
    /\ cur < Len(input)
    /\ \/ input[cur + 1] = NL
       \/ cur + 1 < Len(input) /\ input[cur + 1] = CR /\ input[cur + 2] = NL

AfterNewline == IF input[cur + 1] = NL THEN cur + 1 ELSE cur + 2

\* C7: a newline met inside a title or destination before its closing
\* delimiter gives no Entry and no diagnostic, and parsing resumes at the
\* character immediately after that newline.
C7_NewlineAbort ==
    [][(pc \in {"link_title", "link_dest"} /\ AtNewline) =>
          /\ chapters' = chapters
          /\ errors' = errors
          /\ pc' = "parse_prefaces"
          /\ cur' = AfterNewline]_vars

\* C8 (counter): the balance counter is never below 1
BalanceAtLeastOne == balance >= 1

\* C8 (title): the `]` that closes the title is the first unescaped `]` at
\* balance 1 after the opening `[`, and the title is the text between them
TitleClosedAtMatch ==
    (pc = "link_title" /\ pc' = "link_expect" /\ cur' = cur + 1) =>
        /\ cur' = CloseIdx(input, start + 2, 1, "[", "]")
        /\ title' = SubSeq(input, start + 2, cur)

\* C8 (destination): likewise for the `)` that closes the destination, and
\* the Entry appended has exactly the two texts
DestClosedAtMatch ==
    (pc = "link_dest" /\ chapters' # chapters /\ cur' = cur + 1) =>
        LET open == start + Len(title) + 3 IN
        /\ input[open] = "("
        /\ cur' = CloseIdx(input, open + 1, 1, "(", ")")
        /\ Last(chapters'.prefaces) =
              [name |-> SubSeq(input, start + 2, open - 2),
               destination |-> SubSeq(input, open + 1, cur),
               children |-> None]

\* C8 (result): a link whose title and destination have balanced unescaped
\* delimiters is scanned with success, the inner delimiters kept
NestedScanSucceeds ==
    (pc = "done" /\ OneLinkDoc /\ WellFormedLink(doc[1].items[1])) =>
        /\ chapters.prefaces = LinksOf(doc[1].items)
        /\ errors = <<>>

\* C8: balanced nested delimiters are kept literally and the closing
\* delimiter is the first unescaped one met while the counter is 1.
C8_BalancedNesting ==
    /\ []BalanceAtLeastOne
    /\ []NestedScanSucceeds
    /\ [][TitleClosedAtMatch /\ DestClosedAtMatch]_vars

C8_Witness ==
    /\ pc = "done"
    /\ OneLinkDoc
    /\ chapters.prefaces =
          << [name |-> <<"[", " ", "]">>, destination |-> <<"(", ")">>,
              children |-> None] >>

\* C9 (step part): a backslash with a character after it appends both to
\* the text, whatever the character is, and leaves the balance counter and
\* the loop as they are
EscapeStep ==
    /\ (pc = "link_title" /\ cur + 1 < Len(input) /\ input[cur + 1] = BS) =>
          /\ title' = title \o <<BS, input[cur + 2]>>
          /\ balance' = balance
          /\ pc' = "link_title"
          /\ cur' = cur + 2
    /\ (pc = "link_dest" /\ cur + 1 < Len(input) /\ input[cur + 1] = BS) =>
          /\ dest' = dest \o <<BS, input[cur + 2]>>
          /\ balance' = balance
          /\ pc' = "link_dest"
          /\ cur' = cur + 2

\* C9 (the example): a link whose title ends with an escaped character has
\* that title, backslash kept
EscapeExample ==
    (/\ pc = "done"
     /\ OneLinkDoc
     /\ \E c \in {"[", "]", BS, " "} :
           doc[1].items[1].title \in {<<BS, c>>, <<" ", BS, c>>}
     /\ WellNested(doc[1].items[1].dest, "(", ")")) =>
        chapters.prefaces = LinksOf(doc[1].items)

\* C9: a backslash and the character after it are both kept in the text.
C9_EscapeKept == []EscapeExample /\ [][EscapeStep]_vars

C9_Witness ==
    /\ pc = "done"
    /\ chapters.prefaces =
          << [name |-> <<" ", BS, "[">>, destination |-> <<BS, ")">>,
              children |-> None] >>

\* C10 (dispatch): a `-` at the top-level dispatch ends the loop at once,
\* with the `-` unconsumed, no Entry and no diagnostic
DashEndsLoop ==
    (pc = "parse_prefaces" /\ cur < Len(input) /\ input[cur + 1] = "-") =>
        /\ pc' = "return"
        /\ cur' = cur
        /\ chapters' = chapters
        /\ errors' = errors

\* C10 (Done): once the loop has ended nothing more is consumed, appended
\* or recorded
DoneIsFinal ==
    (pc \in {"return", "done"}) =>
        /\ pc' = "done"
        /\ cur' = cur
        /\ chapters' = chapters
        /\ errors' = errors

\* C10: a top-level `-` moves the pass to Done; the rest stays unconsumed.
C10_DashStopsPass == [][DashEndsLoop /\ DoneIsFinal]_vars

\* ended at a `-` with a line after it that would have been diagnosed
C10_Witness ==
    /\ pc = "done"
    /\ cur + 3 <= Len(input)
    /\ input[cur + 1] = "-"
    /\ input[cur + 2] = NL
    /\ input[cur + 3] = " "
    /\ errors = <<>>
    /\ result # None

\* the offset is the byte right after a "\n" of the input
AtLineBoundary ==
    \E k \in DOMAIN input : input[k] = NL /\ offset = ByteLen(SubSeq(input, 1, k))

\* the number of "\n" before byte offset b
NewlinesBefore(b) ==
    Cardinality({ k \in DOMAIN input :
                    input[k] = NL /\ ByteLen(SubSeq(input, 1, k)) <= b })

\* the number of lines: one per "\n", and one more for text after the last
LineCount ==
    Cardinality({ k \in DOMAIN input : input[k] = NL })
        + (IF input # <<>> /\ input[Len(input)] # NL THEN 1 ELSE 0)

\* C11: to_linecol(0) is (0, 0) for a non-empty input; for an offset right
\* after a line's terminator it is (index of the next line, 0); for an
\* offset past the end of all lines it is (number of lines, 0).
C11_LineColAtBoundaries ==
    linecol # None =>
        /\ (input # <<>> /\ offset = 0) => linecol[1] = <<0, 0>>
        /\ AtLineBoundary => linecol[1] = <<NewlinesBefore(offset), 0>>
        /\ offset > ByteLen(input) => linecol[1] = <<LineCount, 0>>

\* C12: parsing the document of the test records no errors
\* (contains_errors() is false) and the outline returned has exactly 3
\* prefaces.
C12_TestDocumentPasses ==
    (pc = "done" /\ input = test_case) =>
        /\ ~contains_errors
        /\ result # None => Len(result[1].prefaces) = 3

\* the cursor after the rest of the line from c is consumed: just past the
\* first "\n" at or after the character at c, or the end of the input
EolAfter(c) ==
    IF \E j \in (c + 1)..Len(input) : input[j] = NL
    THEN CHOOSE j \in (c + 1)..Len(input) :
            input[j] = NL /\ \A k \in (c + 1)..(j - 1) : input[k] # NL
    ELSE Len(input)

C14_NoNewlineInEntry ==
    \A i \in DOMAIN chapters.prefaces :
        /\ NL \notin Chars(chapters.prefaces[i].name)
        /\ NL \notin Chars(chapters.prefaces[i].destination)

\* C15 (recording): the step that records a diagnostic leaves the pass at
\* the top-level dispatch
RecordingGoesOn == errors' # errors => pc' = "parse_prefaces"

\* C15 (after a diagnostic): with diagnostics recorded the dispatch still
\* diagnoses an unexpected character and still starts a link scan at `[`
DispatchAfterDiagnostic ==
    (pc = "parse_prefaces" /\ errors # <<>> /\ cur < Len(input) /\ ~AtNewline) =>
        /\ input[cur + 1] \notin {"[", "-"} => Len(errors') = Len(errors) + 1
        /\ input[cur + 1] = "[" => pc' = "link_title" /\ cur' = cur + 1

\* C15 (end): the pass has ended only with the cursor at the end of the
\* input or at a `-`
EndsAtEofOrDash ==
    (pc \in {"return", "done", "panic"}) =>
        (cur = Len(input) \/ input[cur + 1] = "-")

\* C15: recording a diagnostic never ends the pass; it ends only at the end
\* of the input or at a top-level `-`.
C15_DiagnosticsDoNotEndPass ==
    []EndsAtEofOrDash /\ [][RecordingGoesOn /\ DispatchAfterDiagnostic]_vars

\* a diagnosed line, then a well-formed link that is appended
C15_Witness ==
    /\ pc = "done"
    /\ doc # None
    /\ Len(doc[1].items) = 2
    /\ doc[1].items[1].title = <<"]">>
    /\ doc[1].items[2].link
    /\ WellFormedLink(doc[1].items[2])
    /\ Len(errors) = 1
    /\ chapters.prefaces = LinksOf(<<doc[1].items[2]>>)

\* C16 (step): the step that records a diagnostic consumes the rest of the
\* line from the cursor on, its newline included, and appends no Entry
DiagnosedLineDiscarded ==
    errors' # errors => (chapters' = chapters /\ cur' = EolAfter(cur))

\* C16 (state): the diagnostics are on different lines of the input, a
\* line being ended by "\n"
OneDiagnosticPerLine ==
    \A i, j \in DOMAIN errors :
        i < j => NewlinesBefore(errors[i].byte) < NewlinesBefore(errors[j].byte)

\* C16: once a diagnostic is recorded the rest of its line is discarded, so
\* every line of the input carries at most one diagnostic.
C16_OneDiagnosticPerLine ==
    []OneDiagnosticPerLine /\ [][DiagnosedLineDiscarded]_vars

\* a diagnosed line whose rest would have started a link, then a second
\* diagnostic on the next line
C16_Witness ==
    /\ pc = "done"
    /\ input = <<" ", "[", NL, "[">>
    /\ Len(errors) = 2
    /\ errors[1].byte = 0
    /\ errors[2].byte = 4
    /\ chapters.prefaces = <<>>

\* C17 (step): a step leaves the diagnostics as they are or adds one at the
\* end of the list
ErrorsAppendOnly ==
    \/ errors' = errors
    \/ /\ Len(errors') = Len(errors) + 1
       /\ SubSeq(errors', 1, Len(errors)) = errors

\* C17 (state): the byte offsets are strictly increasing along the list
OffsetsIncreasing ==
    \A i, j \in DOMAIN errors : i < j => errors[i].byte < errors[j].byte

\* C17: the diagnostic list is append-only and in parse order.
C17_ErrorsInParseOrder == []OffsetsIncreasing /\ [][ErrorsAppendOnly]_vars

C17_Witness ==
    /\ pc = "done"
    /\ input = <<"[", "]", NL, "]">>
    /\ Len(errors) = 2
    /\ errors[1] = [desc |-> ExpectedMsg("(", NL), byte |-> 2]
    /\ errors[2] = [desc |-> UnexpectedMsg("]"), byte |-> 3]

\* C18 (forward): no step moves the cursor back
CursorForward == ByteLen(SubSeq(input, 1, cur')) >= CurByte /\ cur' >= cur

\* C18 (loop): an iteration of the top-level loop consumes at least one
\* character or ends the loop
LoopProgress == pc = "parse_prefaces" => (cur' > cur \/ pc' = "return")

\* C18 (scan): a link scan, failed or not, leaves the cursor after the `[`
\* where it started
ScanStaysAfterStart ==
    (pc \in {"link_title", "link_expect", "link_dest"}) =>
        (input[start + 1] = "[" /\ cur' > start)

\* C18: the cursor is forward-only.
C18_CursorForwardOnly ==
    [][CursorForward /\ LoopProgress /\ ScanStaysAfterStart]_vars

\* a link scan that failed without a diagnostic, the cursor past its line
C18_Witness ==
    /\ pc = "done"
    /\ Len(input) = 4
    /\ input[1] = "["
    /\ input[3] = NL
    /\ start = 0
    /\ cur = 4
    /\ chapters.prefaces = <<>>
    /\ errors = <<>>

\* C19 (state): the chapters and the appendices of the outline are empty
OnlyPrefaces == chapters.chapters = <<>> /\ chapters.appendices = <<>>

\* C19 (step): the prefaces are left as they are or get one Entry at their
\* end, so that each value is a prefix of the later ones
PrefacesAppendOnly ==
    \/ chapters'.prefaces = chapters.prefaces
    \/ /\ Len(chapters'.prefaces) = Len(chapters.prefaces) + 1
       /\ SubSeq(chapters'.prefaces, 1, Len(chapters.prefaces)) = chapters.prefaces

\* C19: chapters and appendices stay empty; prefaces only grows at its end.
C19_OnlyPrefacesGrow == []OnlyPrefaces /\ [][PrefacesAppendOnly]_vars

C19_Witness ==
    /\ pc = "done"
    /\ Len(chapters.prefaces) = 2
    /\ chapters.prefaces[1].name # chapters.prefaces[2].name
    /\ chapters.chapters = <<>>
    /\ chapters.appendices = <<>>

\* C20: in the Header state, an input that starts with `#` is consumed
\* through its first newline (or to its end), whatever the line holds, and
\* any other input is left with the cursor at 0; errors and the outline
\* are unchanged and the next state is Prefaces.
C20_HeaderSkipped ==
    [][pc = "parse_header" =>
          /\ cur = 0
          /\ cur' = IF input # <<>> /\ input[1] = "#" THEN EolAfter(0) ELSE 0
          /\ errors' = errors
          /\ chapters' = chapters
          /\ pc' = "parse_prefaces"]_vars

\* a `#` line holding a character the dispatch would have diagnosed
C20_Witness ==
    /\ pc = "parse_prefaces"
    /\ Len(input) = 4
    /\ input[1] = "#"
    /\ input[2] = "]"
    /\ input[3] = NL
    /\ cur = 3
    /\ errors = <<>>
    /\ chapters = Chapters_new

====
